---------------------------- MODULE Spec2Model ----------------------------
(***************************************************************************)
(* Claim validation and comparison detection of the nuanced_cv repository  *)
(* (src/utils.py, identical code in src/scripts/utils.py) and the          *)
(* extraction run of src/nuanced_claim_extraction.py.                      *)
(*                                                                         *)
(* The spaCy pipeline nlp(text) is an external collaborator.  Its output   *)
(* is a Doc: a sequence of tokens carrying the attributes the code reads   *)
(* (text, lower_, pos_, tag_, dep_, morph, lemma_, like_url, is_alpha) and *)
(* the sentence starts from which doc.sents is computed.  The annotation   *)
(* is not derived from the characters of the text: any Doc over the        *)
(* lexicon below, cut into sentences in any way, may be the annotation of  *)
(* any raw text, so that what holds here holds for whatever the pipeline   *)
(* returns.  The Matcher is external too: matcher(sent) is the list of all *)
(* matches of the added patterns, reported in one of two opposite orders.  *)
(***************************************************************************)
EXTENDS Integers, Sequences, FiniteSets, TLC

VARIABLES
    text,       \* is_valid_claim / detect_comparison: the argument text
    doc,        \* doc = nlp(text)
    order,      \* the order in which matcher(sent) reports its matches
    ret,        \* the value (or exception) the called function produced
    pc,         \* position of the run
    CATEGORY_FUNCTIONS, \* utils.CATEGORY_FUNCTIONS: ordered name -> function
    corpus,     \* isItBull.iter_conversations(): conversations with a title
    category,   \* args.category
    data_list,  \* main: data_list, rows [conv_id, claim]
    df,         \* main: df with the valid_claim column
    filtered_df,\* main: filtered_df, with the type column once assigned
    todo,       \* categories main still has to extract
    results,    \* extract_based_on_category: results of the last call
    saved       \* data/<category>.csv written so far

vars == <<text, doc, order, ret, pc, CATEGORY_FUNCTIONS, corpus, category,
          data_list, df, filtered_df, todo, results, saved>>

runVars == <<CATEGORY_FUNCTIONS, corpus, category, data_list, df,
             filtered_df, todo, results, saved>>

-----------------------------------------------------------------------------
(* Bounds *)

MaxTextLen == 2

MaxTokens == 3

MaxConvs == 2

-----------------------------------------------------------------------------
(* Raw text *)

\* Characters of a raw text: two letters (word characters), a slash and an
\* exclamation mark.
Alphabet == {"u", "r", "/", "!"}

\* \w of the re module restricted to Alphabet.
IsWordChar(c) == c \in {"u", "r"}

SeqsUpTo(S, n) == UNION {[1..k -> S] : k \in 0..n}

\* Longer texts: mentions alone, inside longer words and next to "!", and
\* near-mentions with no word character after the slash.
LongTexts ==
    { << "u", "/", "u" >>, << "r", "/", "u" >>, << "r", "/", "r", "u" >>,
      << "u", "u", "/", "r" >>, << "u", "r", "/", "u", "r" >>,
      << "!", "u", "/", "u", "!" >>, << "r", "/", "r", "!", "!", "!" >>,
      << "u", "/", "!", "u" >>, << "r", "/", "/", "r" >>,
      << "/", "u", "r", "!" >>, << "u", "!", "r", "!" >> }

\* The raw texts: every short text, and the longer ones above.
Texts == SeqsUpTo(Alphabet, MaxTextLen) \cup LongTexts

\* re.compile(letter + r"/\w+").search(t) is not None
MentionSearch(letter, t) ==
    \E i \in 1..Len(t) :
        /\ t[i] = letter
        /\ i + 2 <= Len(t)
        /\ t[i + 1] = "/"
        /\ IsWordChar(t[i + 2])

user_pattern(t) == MentionSearch("u", t)

subreddit_pattern(t) == MentionSearch("r", t)

\* str.count(c)
RECURSIVE Count(_, _)
Count(t, c) ==
    IF t = <<>> THEN 0
    ELSE (IF Head(t) = c THEN 1 ELSE 0) + Count(Tail(t), c)

-----------------------------------------------------------------------------
(* Annotated text *)

\* token.lower_ of the surface forms used here.
Lower(s) ==
    CASE s = "Scam" -> "scam"
      [] s = "Most" -> "most"
      [] OTHER -> s

\* The attributes of a token that the code reads; fin is
\* "VerbForm=Fin" in token.morph.
Tok(text_, pos_, tag_, dep_, fin_, lemma_, url_, alpha_) ==
    [text |-> text_, lower |-> Lower(text_), pos |-> pos_, tag |-> tag_,
     dep |-> dep_, fin |-> fin_, lemma |-> lemma_, like_url |-> url_,
     is_alpha |-> alpha_]

Word(text_, pos_, tag_, lemma_) ==
    Tok(text_, pos_, tag_, "dep", FALSE, lemma_, FALSE, TRUE)

\* The annotated tokens that occur.  A Doc holds the names; the code's
\* token.<attribute> is Lexicon[name].<attribute>.
Lexicon ==
    [ is |-> Tok("is", "AUX", "VBZ", "ROOT", TRUE, "be", FALSE, TRUE),
      being |-> Tok("being", "AUX", "VBG", "ROOT", FALSE, "be", FALSE, TRUE),
      three |-> Tok("3", "NUM", "CD", "nummod", FALSE, "3", FALSE, FALSE),
      scam |-> Word("scam", "NOUN", "NN", "scam"),
      Scam |-> Tok("Scam", "VERB", "VBP", "ccomp", TRUE, "scam", FALSE, TRUE),
      legit |-> Word("legit", "ADJ", "JJ", "legit"),
      url |-> Tok("www.x.com", "X", "ADD", "dep", FALSE, "www.x.com",
                  TRUE, FALSE),
      as |-> Word("as", "ADP", "IN", "as"),
      than |-> Word("than", "ADP", "IN", "than"),
      great |-> Word("great", "ADJ", "JJ", "great"),
      very |-> Word("very", "ADV", "RB", "very"),
      better |-> Word("better", "ADJ", "JJR", "good"),
      best |-> Word("best", "ADJ", "JJS", "good"),
      more |-> Word("more", "ADV", "RBR", "more"),
      Most |-> Word("Most", "ADJ", "JJS", "most"),
      most_RBS |-> Word("most", "ADV", "RBS", "most"),
      least_JJR |-> Word("least", "ADJ", "JJR", "least"),
      pain |-> Word("pain", "NOUN", "NN", "pain"),
      compared |-> Word("compared", "VERB", "VBN", "compare") ]

\* Tokens for the validator: what the seven predicates can tell apart.
ValidatorTokens ==
    {"is", "being", "Scam", "three", "scam", "legit", "url"}

\* Tokens for the comparison detector: what the eleven patterns can tell
\* apart (surface form, coarse POS, fine tag, lemma).
ComparisonTokens ==
    {"as", "than", "great", "very", "better", "best", "more", "Most",
     "most_RBS", "least_JJR", "pain", "compared"}

\* A Doc: the tokens and the indices (> 1) of the tokens that start a
\* sentence (is_sent_start).  IsDoc(d, V, maxTok): d is a Doc of at most
\* maxTok tokens of V, cut into sentences in any way.
IsDoc(d, V, maxTok) ==
    \E k \in 0..maxTok :
        \E ts \in [1..k -> V] :
            \E st \in SUBSET (2..k) :
                d = [tokens |-> ts, starts |-> st]

\* doc.sents: the spans between sentence starts, in document order; an
\* empty Doc has no sentence.
RECURSIVE SentsLoop(_, _, _)
SentsLoop(d, start, i) ==
    IF i > Len(d.tokens)
    THEN IF start # Len(d.tokens) + 1
         THEN << SubSeq(d.tokens, start, Len(d.tokens)) >>
         ELSE << >>
    ELSE IF i \in d.starts
         THEN << SubSeq(d.tokens, start, i - 1) >> \o SentsLoop(d, i, i + 1)
         ELSE SentsLoop(d, start, i + 1)

Sents(d) == SentsLoop(d, 1, 2)

Range(s) == {s[i] : i \in DOMAIN s}

-----------------------------------------------------------------------------
(* The claim validator *)

\* Variant: the finiteness of the root is not looked at.
check_root_verb_any_form(d) ==
    \E s \in DOMAIN Sents(d) :
        \E i \in DOMAIN Sents(d)[s] :
            LET token == Lexicon[Sents(d)[s][i]] IN
                /\ token.dep = "ROOT"
                /\ token.pos \in {"VERB", "AUX"}

check_root_verb(d) ==
    \E s \in DOMAIN Sents(d) :
        \E i \in DOMAIN Sents(d)[s] :
            LET token == Lexicon[Sents(d)[s][i]] IN
                /\ token.dep = "ROOT"
                /\ token.pos \in {"VERB", "AUX"}
                /\ token.fin

Max(a, b) == IF a >= b THEN a ELSE b

\* all([...]) over a list
RECURSIVE All(_)
All(bs) == IF bs = <<>> THEN TRUE ELSE Head(bs) /\ All(Tail(bs))

no_url(d) == ~ (\E i \in DOMAIN d.tokens : Lexicon[d.tokens[i]].like_url)

no_scam(d) ==
    ~ (\E i \in DOMAIN d.tokens :
           Lexicon[d.tokens[i]].text \in {"scam", "legit"})

\* Variant: "and" for "or" between the two searches.
no_mentions_both(t) == ~ (user_pattern(t) /\ subreddit_pattern(t))

no_mentions(t) == ~ (user_pattern(t) \/ subreddit_pattern(t))

no_short_claims(d) == Len(d.tokens) >= 3

\* Variant: the limit on exclamation marks is off by one.
not_more_than_two_intj(t, d) == Count(t, "!") <= 2 /\ Len(Sents(d)) = 1

not_more_than_one_intj(t, d) == Count(t, "!") <= 1 /\ Len(Sents(d)) = 1

alpha_tokens(d) == SelectSeq(d.tokens, LAMBDA tk : Lexicon[tk].is_alpha)

\* Variant: the denominator without max(1, ...).
TokenCountDenominator(d) == Len(d.tokens)

\* Denominator of frac_alpha; a zero here is a ZeroDivisionError.
AlphaDenominator(d) == Max(1, Len(d.tokens))

\* frac_alpha > 0.6, frac_alpha = len(alpha_tokens) / max(1, len(doc)): the
\* quotient of two small integers exceeds the double 0.6 exactly when
\* 5 * numerator > 3 * denominator.
mostly_alpha(d) == 5 * Len(alpha_tokens(d)) > 3 * AlphaDenominator(d)

\* The seven flags in the order of the final list.
ValidFlags(t, d) ==
    << check_root_verb(d), no_url(d), no_scam(d), no_mentions(t),
       no_short_claims(d), not_more_than_one_intj(t, d), mostly_alpha(d) >>

NoRet == [done |-> FALSE, value |-> FALSE, label |-> "", error |-> ""]

Returned(v, l) == [done |-> TRUE, value |-> v, label |-> l, error |-> ""]

Raised(e) == [done |-> TRUE, value |-> FALSE, label |-> "", error |-> e]

\* is_valid_claim(text) with doc = nlp(text)
is_valid_claim(t, d) ==
    IF AlphaDenominator(d) = 0
    THEN Raised("ZeroDivisionError")
    ELSE Returned(All(ValidFlags(t, d)), "")

-----------------------------------------------------------------------------
(* The comparison detector *)

\* One position of a Matcher pattern.  An empty set leaves the attribute
\* unconstrained; op is "1" (exactly one), "?" or "*".
P(lower_, not_lower_, pos_, tag_, lemma_, op_) ==
    [lower |-> lower_, not_lower |-> not_lower_, pos |-> pos_, tag |-> tag_,
     lemma |-> lemma_, op |-> op_]

LOWER(ws) == P(ws, {}, {}, {}, {}, "1")

POS(p, op_) == P({}, {}, {p}, {}, {}, op_)

TAG(ts, op_) == P({}, {}, {}, ts, {}, op_)

strict_patterns ==
    << << LOWER({"as"}), POS("ADV", "*"), POS("ADJ", "1"), LOWER({"as"}) >>,
       << TAG({"JJR"}, "1"), LOWER({"than"}) >>,
       << TAG({"RBR"}, "1"), TAG({"RB"}, "*"), TAG({"JJ", "RB"}, "1"),
          LOWER({"than"}) >>,
       << LOWER({"more", "less"}), POS("NOUN", "1"), LOWER({"than"}) >>,
       << LOWER({"more", "less"}), LOWER({"than"}) >>,
       << P({}, {}, {}, {"VBN"}, {"compare"}, "1"), POS("ADP", "1") >> >>

implicit_patterns ==
    << << P({}, {"most", "least"}, {}, {"JJR", "JJS"}, {}, "1") >>,
       << TAG({"JJR"}, "1"), POS("NOUN", "?") >>,
       << LOWER({"more", "less"}), POS("NOUN", "1") >>,
       << LOWER({"more", "less"}), POS("ADV", "*"), POS("ADJ", "1") >>,
       << TAG({"RBS"}, "1"), POS("ADV", "*"), POS("ADJ", "1") >> >>

\* Does the token satisfy every attribute constraint of the position?
TokenMatches(p, token) ==
    /\ p.lower = {} \/ token.lower \in p.lower
    /\ token.lower \notin p.not_lower
    /\ p.pos = {} \/ token.pos \in p.pos
    /\ p.tag = {} \/ token.tag \in p.tag
    /\ p.lemma = {} \/ token.lemma \in p.lemma

\* The ends (exclusive) of the matches of pattern[j..] that start at at.
RECURSIVE PatternEnds(_, _, _, _)
PatternEnds(pattern, j, sent, at) ==
    IF j > Len(pattern) THEN {at}
    ELSE LET p == pattern[j]
             here == at <= Len(sent) /\ TokenMatches(p, Lexicon[sent[at]])
         IN  CASE p.op = "1" ->
                    IF here THEN PatternEnds(pattern, j + 1, sent, at + 1)
                    ELSE {}
               [] p.op = "?" ->
                    PatternEnds(pattern, j + 1, sent, at)
                    \cup (IF here
                          THEN PatternEnds(pattern, j + 1, sent, at + 1)
                          ELSE {})
               [] p.op = "*" ->
                    PatternEnds(pattern, j + 1, sent, at)
                    \cup (IF here
                          THEN PatternEnds(pattern, j, sent, at + 1)
                          ELSE {})

\* The matches (match_id, start, end) of the patterns added under one key.
KeyMatches(key, patterns, sent) ==
    UNION { { << key, start, end >> :
                end \in UNION { PatternEnds(patterns[k], 1, sent, start) :
                                  k \in DOMAIN patterns } } :
            start \in DOMAIN sent }

\* Reporting order of the Matcher, one way round: by start, then by end,
\* then the key added first.
Before(m1, m2) ==
    \/ m1[2] < m2[2]
    \/ m1[2] = m2[2] /\ m1[3] < m2[3]
    \/ m1[2] = m2[2] /\ m1[3] = m2[3]
         /\ m1[1] = "STRICT_COMPARISON" /\ m2[1] = "IMPLICIT_COMPARISON"

RECURSIVE Ordered(_)
Ordered(ms) ==
    IF ms = {} THEN << >>
    ELSE LET m == CHOOSE x \in ms : \A y \in ms \ {x} : Before(x, y)
         IN  << m >> \o Ordered(ms \ {m})

Reverse(s) == [i \in DOMAIN s |-> s[Len(s) + 1 - i]]

\* Variant: the implicit patterns were never added to the matcher.
matcher_strict_only(sent, ord) ==
    LET ms == Ordered(KeyMatches("STRICT_COMPARISON", strict_patterns, sent))
    IN  IF ord = "forward" THEN ms ELSE Reverse(ms)

\* matcher(sent): every match of every added pattern, as a list.  The order
\* of the list is the Matcher's business: either way round is admitted.
matcher(sent, ord) ==
    LET ms == Ordered(KeyMatches("STRICT_COMPARISON", strict_patterns, sent)
                      \cup KeyMatches("IMPLICIT_COMPARISON",
                                      implicit_patterns, sent))
    IN  IF ord = "forward" THEN ms ELSE Reverse(ms)

\* Variant: strict matches are not prioritized; the match reported first
\* names the result.
RECURSIVE ScanFirstReported(_, _)
ScanFirstReported(sents, ord) ==
    IF sents = << >> THEN Returned(FALSE, "")
    ELSE LET matches == matcher(Head(sents), ord)
         IN  IF matches = << >> THEN ScanFirstReported(Tail(sents), ord)
             ELSE Returned(TRUE, matches[1][1])

\* Variant: the matches of all sentences are collected, then ranked.
ScanCollectThenRank(sents, ord) ==
    LET names == UNION { {m[1] : m \in Range(matcher(sents[i], ord))} :
                           i \in DOMAIN sents }
    IN  IF "STRICT_COMPARISON" \in names
        THEN Returned(TRUE, "STRICT_COMPARISON")
        ELSE IF "IMPLICIT_COMPARISON" \in names
             THEN Returned(TRUE, "IMPLICIT_COMPARISON")
             ELSE Returned(FALSE, "")

\* The loop of detect_comparison over the remaining sentences.
RECURSIVE ScanSentences(_, _)
ScanSentences(sents, ord) ==
    IF sents = << >> THEN Returned(FALSE, "")
    ELSE LET matches == matcher(Head(sents), ord)
             strict_matches ==
                 SelectSeq(matches, LAMBDA m : m[1] = "STRICT_COMPARISON")
             implicit_matches ==
                 SelectSeq(matches, LAMBDA m : m[1] = "IMPLICIT_COMPARISON")
         IN  IF matches = << >> THEN ScanSentences(Tail(sents), ord)
             ELSE IF strict_matches # << >>
                  THEN Returned(TRUE, "STRICT_COMPARISON")
                  ELSE IF implicit_matches # << >>
                       THEN Returned(TRUE, "IMPLICIT_COMPARISON")
                       ELSE ScanSentences(Tail(sents), ord)

\* detect_comparison(text) with doc = nlp(text)
detect_comparison(d, ord) == ScanSentences(Sents(d), ord)

\* Variant: the placeholder runs the comparison detector.
detect_other_as_comparison(d, ord) == ScanSentences(Sents(d), ord)

\* detect_other(text)
detect_other(d, ord) == Returned(FALSE, "")

-----------------------------------------------------------------------------
(* Calls of the two decision functions on arbitrary annotated text *)

Orders == {"forward", "reverse"}

NoDoc == [tokens |-> << >>, starts |-> {}]

\* The module-level table of utils.py.
Registry ==
    << [name |-> "comparison", fn |-> "detect_comparison"],
       [name |-> "other", fn |-> "detect_other"] >>

NoResults == [category |-> "", out |-> << >>]

\* No extraction run: only the decision functions are called.
IdleRun ==
    /\ CATEGORY_FUNCTIONS = Registry
    /\ corpus = << >>
    /\ category = ""
    /\ data_list = << >>
    /\ df = << >>
    /\ filtered_df = << >>
    /\ todo = << >>
    /\ results = NoResults
    /\ saved = << >>

InitValid ==
    /\ text \in Texts
    /\ IsDoc(doc, ValidatorTokens, MaxTokens)
    /\ order = "forward"
    /\ ret = NoRet
    /\ pc = "call"
    /\ IdleRun

CallIsValidClaim ==
    /\ pc = "call"
    /\ ret' = is_valid_claim(text, doc)
    /\ pc' = "returned"
    /\ UNCHANGED << text, doc, order, runVars >>

NextValid == CallIsValidClaim

SpecValid == InitValid /\ [][NextValid]_vars

InitCmp ==
    /\ text = << >>
    /\ IsDoc(doc, ComparisonTokens, MaxTokens)
    /\ order \in Orders
    /\ ret = NoRet
    /\ pc = "call"
    /\ IdleRun

CallDetectComparison ==
    /\ pc = "call"
    /\ ret' = detect_comparison(doc, order)
    /\ pc' = "returned"
    /\ UNCHANGED << text, doc, order, runVars >>

NextCmp == CallDetectComparison

SpecCmp == InitCmp /\ [][NextCmp]_vars

-----------------------------------------------------------------------------
(* The extraction run: main of nuanced_claim_extraction.py *)

\* A title is a sequence of segments: boilerplate pieces the prefix pattern
\* knows, and one segment standing for the rest of the title, which is the
\* name of an annotated claim of ClaimPool.
Boilerplate == {"IIBS", "Is it bullshit"}

\* [.:?!"\s]
Separators == {":", "?", "\"", " "}

Whitespace == {" "}

OneSentence(ts) == [tokens |-> ts, starts |-> {}]

\* nlp(claim) and the raw characters of the claims that occur in titles.
ClaimPool ==
    [ strict |-> [text |-> << "r" >>,
                  doc |-> OneSentence(<< "is", "better", "than" >>)],
      implicit |-> [text |-> << "!" >>,
                    doc |-> OneSentence(<< "is", "best", "pain" >>)],
      plain |-> [text |-> << "u" >>,
                 doc |-> OneSentence(<< "pain", "is", "great" >>)],
      mention |-> [text |-> << "u", "/", "r" >>,
                   doc |-> OneSentence(<< "is", "more", "than" >>)],
      fragment |-> [text |-> << "!", "!" >>,
                    doc |-> [tokens |-> << "best", "pain" >>,
                             starts |-> {2}]] ]

ClaimNames == DOMAIN ClaimPool

Leads ==
    { << >>,
      << "IIBS", ":", " " >>,
      << "[Meta]", " ", "Is it bullshit", "?", " " >> }

Titles ==
    { lead \o rest : lead \in Leads,
                     rest \in {<< >>} \cup {<< c >> : c \in ClaimNames} }

\* The first index >= i of t whose segment is not in S.
RECURSIVE SkipWhile(_, _, _)
SkipWhile(t, i, S) ==
    IF i <= Len(t) /\ t[i] \in S THEN SkipWhile(t, i + 1, S) ELSE i

\* (?:(?:boilerplate)[.:?!"\s]*)+ from index i: the index after the last
\* repetition, i itself when there is none.
RECURSIVE SkipBoilerplate(_, _)
SkipBoilerplate(t, i) ==
    IF i <= Len(t) /\ t[i] \in Boilerplate
    THEN SkipBoilerplate(t, SkipWhile(t, i + 1, Separators))
    ELSE i

\* Where the match of the prefix pattern at the start of t ends (the index
\* after it); 1 when the pattern does not match.
PrefixEnd(t) ==
    LET afterOpt ==
            IF t # << >> /\ t[1] = "[Meta]" THEN SkipWhile(t, 2, Whitespace)
            ELSE IF t # << >> /\ t[1] = "\"" THEN 2
            ELSE 1
        withOpt == SkipBoilerplate(t, afterOpt)
        withoutOpt == SkipBoilerplate(t, 1)
    IN  IF withOpt > afterOpt THEN withOpt
        ELSE IF withoutOpt > 1 THEN withoutOpt
        ELSE 1

\* str.strip()
RECURSIVE StripRight(_)
StripRight(t) ==
    IF t # << >> /\ t[Len(t)] \in Whitespace
    THEN StripRight(SubSeq(t, 1, Len(t) - 1))
    ELSE t

Strip(t) == StripRight(SubSeq(t, SkipWhile(t, 1, Whitespace), Len(t)))

\* strip_isitbullshit(pattern, text): pattern.sub('', text).strip()
strip_isitbullshit(t) == Strip(SubSeq(t, PrefixEnd(t), Len(t)))

\* The annotated claim a stripped title stands for.
Claim(c) ==
    IF Len(c) = 1 /\ c[1] \in ClaimNames
    THEN ClaimPool[c[1]]
    ELSE [text |-> << >>, doc |-> NoDoc]

\* CATEGORY_FUNCTIONS[name] applied to a claim
Classify(fn, c) ==
    IF fn = "detect_comparison"
    THEN detect_comparison(Claim(c).doc, "forward")
    ELSE detect_other(Claim(c).doc, "forward")

Lookup(registry, name) ==
    (CHOOSE i \in DOMAIN registry : registry[i].name = name)

\* for conv in iter_conversations(): append [conv.id, claim] if len(claim) > 0
RECURSIVE DataList(_, _)
DataList(convs, i) ==
    IF i > Len(convs) THEN << >>
    ELSE LET claim == strip_isitbullshit(convs[i])
         IN  (IF Len(claim) > 0
              THEN << [conv_id |-> i, claim |-> claim] >>
              ELSE << >>) \o DataList(convs, i + 1)

\* df['valid_claim'] = df['claim'].apply(is_valid_claim)
WithValidClaim(rows) ==
    [i \in DOMAIN rows |->
        [conv_id |-> rows[i].conv_id, claim |-> rows[i].claim,
         valid_claim |-> is_valid_claim(Claim(rows[i].claim).text,
                                        Claim(rows[i].claim).doc)]]

\* Variant: the valid_claim column is computed but every row is kept.
KeepEveryRow(rows) == rows

\* df[df['valid_claim'] == True].reset_index(drop=True)
FilterValid(rows) ==
    SelectSeq(rows, LAMBDA r : r.valid_claim = Returned(TRUE, ""))

\* df['type'] = results.apply(lambda x: x[1])
WithType(rows, out) ==
    [i \in DOMAIN rows |->
        [conv_id |-> rows[i].conv_id, claim |-> rows[i].claim,
         valid_claim |-> rows[i].valid_claim, type |-> out[i].label]]

\* df[mask].copy()[["conv_id", "claim", "type"]]
RECURSIVE Matching(_, _, _)
Matching(rows, out, i) ==
    IF i > Len(rows) THEN << >>
    ELSE (IF out[i].value
          THEN << [conv_id |-> rows[i].conv_id, claim |-> rows[i].claim,
                   type |-> rows[i].type] >>
          ELSE << >>) \o Matching(rows, out, i + 1)

Init ==
    /\ text = << >>
    /\ doc = NoDoc
    /\ order = "forward"
    /\ ret = NoRet
    /\ pc = "main"
    /\ CATEGORY_FUNCTIONS = Registry
    /\ corpus \in SeqsUpTo(Titles, MaxConvs)
    /\ category \in {CATEGORY_FUNCTIONS[i].name : i \in DOMAIN Registry}
                    \cup {"all"}
    /\ data_list = << >>
    /\ df = << >>
    /\ filtered_df = << >>
    /\ todo = << >>
    /\ results = NoResults
    /\ saved = << >>

\* lines 53-57: the loop over the conversations
BuildDataList ==
    /\ pc = "main"
    /\ data_list' = DataList(corpus, 1)
    /\ pc' = "collected"
    /\ UNCHANGED << text, doc, order, ret, CATEGORY_FUNCTIONS, corpus,
                    category, df, filtered_df, todo, results, saved >>

\* lines 61-63: validate every claim, keep the valid rows
ValidateClaims ==
    /\ pc = "collected"
    /\ LET validated == WithValidClaim(data_list)
       IN  IF \E i \in DOMAIN validated : validated[i].valid_claim.error # ""
           THEN /\ pc' = "raised"
                /\ UNCHANGED << df, filtered_df >>
           ELSE /\ df' = validated
                /\ filtered_df' = FilterValid(validated)
                /\ pc' = "filtered"
    /\ UNCHANGED << text, doc, order, ret, CATEGORY_FUNCTIONS, corpus,
                    category, data_list, todo, results, saved >>

\* lines 67-72: one category, or every category in the order of the table
SelectCategories ==
    /\ pc = "filtered"
    /\ todo' = IF category # "all" THEN << category >>
               ELSE [i \in DOMAIN CATEGORY_FUNCTIONS |->
                        CATEGORY_FUNCTIONS[i].name]
    /\ pc' = "extract"
    /\ UNCHANGED << text, doc, order, ret, CATEGORY_FUNCTIONS, corpus,
                    category, data_list, df, filtered_df, results, saved >>

\* extract_based_on_category(category_name, pattern_func, filtered_df)
ExtractCategory ==
    /\ pc = "extract"
    /\ todo # << >>
    /\ LET category_name == Head(todo)
           pattern_func ==
               CATEGORY_FUNCTIONS[Lookup(CATEGORY_FUNCTIONS, category_name)].fn
           out == [i \in DOMAIN filtered_df |->
                      Classify(pattern_func, filtered_df[i].claim)]
           typed == WithType(filtered_df, out)
       IN  /\ results' = [category |-> category_name, out |-> out]
           /\ filtered_df' = typed
           /\ saved' = Append(saved, [category |-> category_name,
                                      rows |-> Matching(typed, out, 1)])
    /\ todo' = Tail(todo)
    /\ UNCHANGED << text, doc, order, ret, pc, CATEGORY_FUNCTIONS, corpus,
                    category, data_list, df >>

\* With no row in the table the mask is an empty column of objects, which
\* pandas may take for a list of column labels rather than a boolean mask:
\* the selection of the three columns then raises KeyError and nothing is
\* written.
ExtractFromEmptyRaises ==
    /\ pc = "extract"
    /\ todo # << >>
    /\ filtered_df = << >>
    /\ pc' = "raised"
    /\ UNCHANGED << text, doc, order, ret, CATEGORY_FUNCTIONS, corpus,
                    category, data_list, df, filtered_df, todo, results,
                    saved >>

Finish ==
    /\ pc = "extract"
    /\ todo = << >>
    /\ pc' = "done"
    /\ UNCHANGED << text, doc, order, ret, runVars >>

Next ==
    \/ BuildDataList
    \/ ValidateClaims
    \/ SelectCategories
    \/ ExtractCategory
    \/ ExtractFromEmptyRaises
    \/ Finish

Spec == Init /\ [][Next]_vars

-----------------------------------------------------------------------------
(* Properties of is_valid_claim, under SpecValid *)

DocTokens == {Lexicon[doc.tokens[i]] : i \in DOMAIN doc.tokens}

NumTokens == Len(doc.tokens)

NumSentences == Len(Sents(doc))

NumExclamations == Cardinality({i \in DOMAIN text : text[i] = "!"})

NumAlphabetic ==
    Cardinality({i \in DOMAIN doc.tokens : Lexicon[doc.tokens[i]].is_alpha})

\* (1) some sentence has a ROOT token that is a finite VERB or AUX
HasFiniteRootVerb ==
    \E tk \in DocTokens :
        tk.dep = "ROOT" /\ tk.pos \in {"VERB", "AUX"} /\ tk.fin

\* (2) no token looks like a URL
NoUrl == \A tk \in DocTokens : ~ tk.like_url

\* (3) no token's surface text is "scam" or "legit"
NoBannedWord == \A tk \in DocTokens : tk.text # "scam" /\ tk.text # "legit"

\* the raw text t has a substring u/<word characters> or r/<word characters>
IsMentioning(t) ==
    \E i \in DOMAIN t, j \in DOMAIN t :
        /\ i + 2 <= j
        /\ t[i] \in {"u", "r"}
        /\ t[i + 1] = "/"
        /\ \A k \in (i + 2)..j : t[k] \in {"u", "r"}

\* (4) no mention in the raw text
NoMention == ~ IsMentioning(text)

\* (5) at least three tokens
LongEnough == NumTokens >= 3

\* (6) at most one "!" and exactly one sentence
Calm == NumExclamations <= 1 /\ NumSentences = 1

\* (7) more than 60% of the tokens (of max(1, token count)) are alphabetic
MostlyAlphabetic ==
    IF NumTokens = 0 THEN FALSE ELSE 10 * NumAlphabetic > 6 * NumTokens

\* C1: is_valid_claim returns true if and only if all seven predicates hold
\* of the text and its annotation; any single failing predicate makes it
\* false.
C1_SevenPredicates ==
    pc = "returned" =>
        /\ ret.error = ""
        /\ ret.value <=> ( /\ HasFiniteRootVerb
                           /\ NoUrl
                           /\ NoBannedWord
                           /\ NoMention
                           /\ LongEnough
                           /\ Calm
                           /\ MostlyAlphabetic )

\* a valid claim was accepted
C1_Witness == pc = "returned" /\ ret.value /\ NumTokens = 3

\* The text with "!" appended until it holds n of them.
RECURSIVE WithExclamations(_, _)
WithExclamations(t, n) ==
    IF Count(t, "!") >= n THEN t ELSE WithExclamations(Append(t, "!"), n)

\* C2 as claimed: a one-sentence text with at most one "!" that satisfies
\* predicates 1, 2, 3, 5 and 7 is accepted, and the same text with two "!"
\* is rejected.
C2_AsClaimed ==
    ( /\ pc = "returned"
      /\ NumSentences = 1
      /\ NumExclamations <= 1
      /\ HasFiniteRootVerb /\ NoUrl /\ NoBannedWord
      /\ LongEnough /\ MostlyAlphabetic )
    => /\ ret.value
       /\ ~ is_valid_claim(WithExclamations(text, 2), doc).value

\* C2, amended: a one-sentence text with at most one "!" that satisfies
\* predicates 1, 2, 3, 4, 5 and 7 is accepted, and the same text with two
\* "!" is rejected.
C2_WithNoMention ==
    ( /\ pc = "returned"
      /\ NumSentences = 1
      /\ NumExclamations <= 1
      /\ HasFiniteRootVerb /\ NoUrl /\ NoBannedWord /\ NoMention
      /\ LongEnough /\ MostlyAlphabetic )
    => /\ ret.value
       /\ ~ is_valid_claim(WithExclamations(text, 2), doc).value

\* a text with one "!" was accepted
C2_Witness ==
    /\ pc = "returned"
    /\ NumSentences = 1
    /\ NumExclamations = 1
    /\ NoMention
    /\ ret.value

\* C5: a text with a mention u/<word> or r/<word> anywhere in it is
\* rejected, whatever the other six predicates say.
C5_MentionRejected ==
    pc = "returned" /\ IsMentioning(text) => ret.error = "" /\ ~ ret.value

\* a text was rejected for its mention alone
C5_Witness ==
    /\ pc = "returned"
    /\ IsMentioning(text)
    /\ HasFiniteRootVerb /\ NoUrl /\ NoBannedWord
    /\ LongEnough /\ Calm /\ MostlyAlphabetic
    /\ ~ ret.value

\* C6: a text of fewer than three tokens, the empty annotation included, is
\* rejected without an error (no division by zero).
C6_ShortRejected ==
    pc = "returned" /\ NumTokens < 3 => ret.error = "" /\ ~ ret.value

\* the text without any token or sentence was rejected
C6_Witness ==
    /\ pc = "returned"
    /\ NumTokens = 0
    /\ NumSentences = 0
    /\ ret.done /\ ret.error = "" /\ ~ ret.value

-----------------------------------------------------------------------------
(* Properties of detect_comparison, under SpecCmp *)

Sentences == Sents(doc)

\* some strict pattern (a-f) matches somewhere in the sentence
StrictIn(sent) ==
    KeyMatches("STRICT_COMPARISON", strict_patterns, sent) # {}

\* some implicit pattern (g-k) matches somewhere in the sentence
ImplicitIn(sent) ==
    KeyMatches("IMPLICIT_COMPARISON", implicit_patterns, sent) # {}

\* sentence i is the first one, in document order, with any match
FirstMatching(i) ==
    /\ i \in DOMAIN Sentences
    /\ StrictIn(Sentences[i]) \/ ImplicitIn(Sentences[i])
    /\ \A j \in 1..(i - 1) :
           ~ StrictIn(Sentences[j]) /\ ~ ImplicitIn(Sentences[j])

\* C3: when a strict and an implicit pattern both match in a sentence and no
\* earlier sentence has a match, the result is (true, "STRICT_COMPARISON"),
\* in whatever order the matcher reports the matches.
C3_StrictOverImplicit ==
    pc = "returned" =>
        \A i \in DOMAIN Sentences :
            ( /\ FirstMatching(i)
              /\ StrictIn(Sentences[i])
              /\ ImplicitIn(Sentences[i]) )
            => ret = Returned(TRUE, "STRICT_COMPARISON")

\* strict won in a second sentence although an implicit match was reported
\* first
C3_Witness ==
    /\ pc = "returned"
    /\ FirstMatching(2)
    /\ StrictIn(Sentences[2])
    /\ matcher(Sentences[2], order)[1][1] = "IMPLICIT_COMPARISON"
    /\ ret = Returned(TRUE, "STRICT_COMPARISON")

\* C4: the first sentence with any match alone determines the label: strict
\* if it has a strict match, implicit otherwise, whatever later sentences
\* hold; a match in a later sentence only is still reported.
C4_FirstMatchWins ==
    pc = "returned" =>
        \A i \in DOMAIN Sentences :
            FirstMatching(i) =>
                ret = Returned(TRUE, IF StrictIn(Sentences[i])
                                     THEN "STRICT_COMPARISON"
                                     ELSE "IMPLICIT_COMPARISON")

\* an implicit first sentence won over a strict later sentence
C4_Witness ==
    /\ pc = "returned"
    /\ FirstMatching(1)
    /\ ~ StrictIn(Sentences[1])
    /\ \E j \in DOMAIN Sentences : j > 1 /\ StrictIn(Sentences[j])
    /\ ret = Returned(TRUE, "IMPLICIT_COMPARISON")

\* C7: the result is (false, "") exactly when no sentence has a match of
\* either family; otherwise it is true with one of the two labels.
C7_ResultShape ==
    pc = "returned" =>
        /\ ret.error = ""
        /\ (ret = Returned(FALSE, ""))
             <=> (\A i \in DOMAIN Sentences :
                      ~ StrictIn(Sentences[i]) /\ ~ ImplicitIn(Sentences[i]))
        /\ ret.value
             => ret.label \in {"STRICT_COMPARISON", "IMPLICIT_COMPARISON"}
        /\ ~ ret.value => ret.label = ""

\* two sentences, neither with a match, gave (false, "")
C7_Witness ==
    /\ pc = "returned"
    /\ Len(Sentences) = 2
    /\ ret = Returned(FALSE, "")

\* token i of the Doc is "most" or "least" tagged JJR or JJS
IsMostOrLeast(i) ==
    /\ Lexicon[doc.tokens[i]].tag \in {"JJR", "JJS"}
    /\ Lexicon[doc.tokens[i]].lower \in {"most", "least"}

\* token i is the only comparative or superlative of a single sentence that
\* has no "as", "more", "less", "than" and no past participle of "compare"
AloneInPlainSentence(i) ==
    /\ Len(Sentences) = 1
    /\ \A j \in DOMAIN doc.tokens :
        LET tk == Lexicon[doc.tokens[j]] IN
            /\ j # i => tk.tag \notin {"JJR", "JJS", "RBR", "RBS"}
            /\ tk.lower \notin {"as", "more", "less", "than"}
            /\ ~ (tk.lemma = "compare" /\ tk.tag = "VBN")

\* C8: "most" or "least" tagged JJR or JJS, alone in such a sentence, makes
\* no comparison: the result is (false, ""), whatever follows the token.
C8_MostLeastExcluded ==
    pc = "returned" =>
        \A i \in DOMAIN doc.tokens :
            IsMostOrLeast(i) /\ AloneInPlainSentence(i)
            => ret = Returned(FALSE, "")

-----------------------------------------------------------------------------
(* Properties of the extraction run, under Spec *)

\* C9: the category table holds exactly "comparison" -> detect_comparison
\* and "other" -> detect_other, in that order, in every state of a run, and
\* the "other" classifier returns (false, "") for every text it is given.
C9_RegistryFixed ==
    /\ CATEGORY_FUNCTIONS =
           << [name |-> "comparison", fn |-> "detect_comparison"],
              [name |-> "other", fn |-> "detect_other"] >>
    /\ results.category = "other" =>
           \A i \in DOMAIN results.out : results.out[i] = Returned(FALSE, "")
    /\ \A c \in ClaimNames :
           Classify(CATEGORY_FUNCTIONS[2].fn, << c >>) = Returned(FALSE, "")

\* a run over all categories ended, and "other" was applied to a claim
\* that is a comparison
C9_Witness ==
    /\ pc = "done"
    /\ category = "all"
    /\ results.category = "other"
    /\ \E i \in DOMAIN results.out :
           /\ results.out[i] = Returned(FALSE, "")
           /\ Classify("detect_comparison", filtered_df[i].claim).value

\* the classifier the table of utils.py binds to a category
ClassifierOf(name) ==
    IF name = "comparison" THEN "detect_comparison" ELSE "detect_other"

\* C10: every row saved for a category is the non-empty stripped title of
\* its conversation, was accepted by is_valid_claim and matched by that
\* category's classifier, and carries the label that classifier returned.
C10_ValidatorGates ==
    \A k \in DOMAIN saved :
        \A n \in DOMAIN saved[k].rows :
            LET row == saved[k].rows[n]
                claim == strip_isitbullshit(corpus[row.conv_id])
                verdict == Classify(ClassifierOf(saved[k].category), claim)
            IN  /\ row.claim = claim
                /\ Len(claim) > 0
                /\ is_valid_claim(Claim(claim).text, Claim(claim).doc)
                       = Returned(TRUE, "")
                /\ verdict.value
                /\ row.type = verdict.label

\* a run over all categories saved a comparison while dropping an invalid
\* title that is a comparison too
C10_Witness ==
    /\ pc = "done"
    /\ category = "all"
    /\ Len(saved) = 2
    /\ saved[1].category = "comparison"
    /\ Len(saved[1].rows) = 1
    /\ saved[2].rows = << >>
    /\ \E i \in DOMAIN data_list :
           /\ ~ is_valid_claim(Claim(data_list[i].claim).text,
                               Claim(data_list[i].claim).doc).value
           /\ Classify("detect_comparison", data_list[i].claim).value

=============================================================================
